---- MODULE Spec2Model ----
(***************************************************************************)
(* Model of the Express middleware of server/src/middleware/auth.js, of the *)
(* controllers of server/src/controllers/authController.js and of the      *)
(* client component LoginForm.                                             *)
(*                                                                         *)
(* Specification Spec: one instance of the in-memory fixed-window rate     *)
(* limiter returned by rateLimit(windowMs, max), the clock it reads with   *)
(* Date.now(), and the requests the server hands to it.  Each invocation   *)
(* of the middleware is synchronous (no await, no callback), so it is one  *)
(* atomic step.                                                            *)
(*                                                                         *)
(* Specification SpecAuth: the routes of server/src/routes/auth.js, each a *)
(* chain of authenticate, authorize(...) and a controller that a request  *)
(* walks as long as each middleware calls next(); and authorize(...roles)  *)
(* and errorHandler invoked on their own, as the unit tests invoke them.   *)
(*                                                                         *)
(* Specification SpecUsers: the controllers register, login and            *)
(* changePassword on the users collection.  A handler is async: it runs    *)
(* from its call to its write of the collection (its reads, and the checks *)
(* between them, see one state of the collection) and from that write to   *)
(* its response, and other requests are served in between.  The User model *)
(* (server/src/models/User.js) is described by what its callers and the    *)
(* integration tests expect of it.                                         *)
(*                                                                         *)
(* Specification SpecForm: one mounted LoginForm, the events it handles    *)
(* (typing, clicks on the submit button, submit events on the form) and    *)
(* its parent changing the prop isLoading.                                 *)
(***************************************************************************)
EXTENDS Integers, Sequences, FiniteSets, Bags, TLC

\* ---------------------------------------------------------------- bounds
MaxTime == 5        \* Date.now() runs over 0..MaxTime
MaxWindow == 2      \* windowMs is drawn from 1..MaxWindow
MaxMax == 2         \* max is drawn from 1..MaxMax
MaxHeaderLen == 2   \* an Authorization header is made of at most this many
                    \* pieces
MaxFieldErrors == 2 \* a ValidationError carries at most this many field errors
MaxDate == 1        \* new Date() runs over 0..MaxDate
MaxCalls == 2       \* the prop onSubmit is called at most this many times

\* ---------------------------------------------------------------- values
Undefined == "undefined"
Null == "null"
Addresses == {"A", "B"}                     \* client addresses

\* A request as the middleware reads it: req.ip and
\* req.connection.remoteAddress.
Requests == [ip : Addresses \cup {Undefined}, remoteAddress : Addresses]

VARIABLES
    windowMs,   \* rateLimit's first parameter (closure constant)
    max,        \* rateLimit's second parameter (closure constant)
    requests,   \* the Map `requests`: key -> {count, resetTime}
    now,        \* the value Date.now() returns
    last,       \* the invocation that just ran (NoLast after a clock tick):
                \* its key, what it saw, what it did
    win,        \* per key: bookkeeping of the key's current window
    admits,     \* per key: the numbers of requests admitted at the instants
                \* now, now - 1, ..., now - windowMs (in this order)
    seen,       \* the keys a request has been handled for
    solo,       \* per key: a limiter instance that sees this key's requests only
    fresh,      \* per key: a limiter instance that was empty when the key's
                \* window was last reset
    areq,       \* the request walking a route: its route, Authorization
                \* header and req.user
    ares,       \* what has been written to that request's res
    apc,        \* the position of that request in its route's chain
                \* (0: no request, Len + 1: finished)
    atrace,     \* the middleware that called next() for that request and the
                \* controller reached, in order
    unit,       \* the last invocation of authorize(...roles) or errorHandler
                \* on its own: what it was given and what it did
    users,      \* the users collection: the stored documents, by _id
    inflight,   \* the bag of the requests whose handler has read the
                \* collection and not yet written it: the handler, its
                \* req.body and the user it found
    today,      \* the value new Date() returns to the controllers
    served,     \* the step a controller took last: the request it belongs
                \* to, what the step saw and what it did
    formData,   \* LoginForm's state formData: {email, password}
    validationErrors,   \* LoginForm's state validationErrors
    isLoading,  \* LoginForm's prop isLoading
    calls,      \* the arguments of the calls of the prop onSubmit, in order
    fevent      \* the last event LoginForm handled, and what it saw

limiterVars ==
    <<windowMs, max, requests, now, last, win, admits, seen, solo, fresh>>
authVars == <<areq, ares, apc, atrace, unit>>
userVars == <<users, inflight, today, served>>
formVars == <<formData, validationErrors, isLoading, calls, fevent>>
vars == <<limiterVars, authVars, userVars, formVars>>

\* What an action of one part of the program leaves alone.
restOfLimiter == <<authVars, userVars, formVars>>
restOfAuth == <<limiterVars, userVars, formVars>>
restOfUsers == <<limiterVars, authVars, formVars>>
restOfForm == <<limiterVars, authVars, userVars>>

\* ---------------------------------------------------------------- helpers
EmptyMap == [x \in {} |-> Null]

\* Map.prototype.has
MapHas(m, k) == k \in DOMAIN m

\* A Map that holds the key just set and nothing else.
MapSetOnly(m, k, v) == [x \in {k} |-> v]

\* One counter object shared by all keys.
MapSetShared(m, k, v) == [x \in DOMAIN m \cup {k} |-> v]

\* Map.prototype.set
MapSet(m, k, v) == [x \in DOMAIN m \cup {k} |-> IF x = k THEN v ELSE m[x]]

\* const key = req.ip || req.connection.remoteAddress;
KeyOf(req) == IF req.ip # Undefined THEN req.ip ELSE req.remoteAddress

\* formatErrorResponse(message, code, details = []); the timestamp field
\* (new Date().toISOString()) is not part of any decision and is left out.
formatErrorResponse(message, code) ==
    [success |-> FALSE,
     error |-> [message |-> message, code |-> code, details |-> <<>>]]

\* formatErrorResponse(message, code, details)
formatErrorResponseWith(message, code, details) ==
    [success |-> FALSE,
     error |-> [message |-> message, code |-> code, details |-> details]]

\* What one invocation did to res and next: next() called (no response
\* written), or res.status(s).json(body).
CallNext == [next |-> 1, status |-> 0, body |-> Null]
Respond(s, b) == [next |-> 0, status |-> s, body |-> b]

NewCounterZero(t) == [count |-> 0, resetTime |-> t + windowMs]
NewCounterNoWindow(t) == [count |-> 1, resetTime |-> t]

\* { count: 1, resetTime: now + windowMs }
NewCounter(t) == [count |-> 1, resetTime |-> t + windowMs]

\* now > requestData.resetTime
WindowExpired(t, requestData) == t > requestData.resetTime

LimitReachedOffByOne(requestData) == requestData.count > max
LimitReachedOneEarly(requestData) == requestData.count + 1 >= max

\* requestData.count >= max
LimitReached(requestData) == requestData.count >= max

\* As RateLimitStep, but the rejecting branch does not return.
RateLimitStepMissingReturn(m, key, t) ==
    IF ~MapHas(m, key)
    THEN [requests |-> MapSet(m, key, NewCounter(t)), out |-> CallNext]
    ELSE LET requestData == m[key] IN
         IF WindowExpired(t, requestData)
         THEN [requests |-> MapSet(m, key, NewCounter(t)), out |-> CallNext]
         ELSE [requests |-> MapSet(m, key,
                                   [requestData EXCEPT !.count = @ + 1]),
               out |-> IF LimitReached(requestData)
                       THEN [next |-> 1, status |-> 429,
                             body |-> formatErrorResponse("Too many requests",
                                                   "RATE_LIMIT_EXCEEDED")]
                       ELSE CallNext]

\* As RateLimitStep, but a reset moves resetTime only and keeps the count.
RateLimitStepResetKeepsCount(m, key, t) ==
    IF ~MapHas(m, key)
    THEN [requests |-> MapSet(m, key, NewCounter(t)), out |-> CallNext]
    ELSE LET requestData == m[key] IN
         IF WindowExpired(t, requestData)
         THEN [requests |-> MapSet(m, key,
                   [requestData EXCEPT !.resetTime = t + windowMs]),
               out |-> CallNext]
         ELSE IF LimitReached(requestData)
         THEN [requests |-> m,
               out |-> Respond(429, formatErrorResponse("Too many requests",
                                                        "RATE_LIMIT_EXCEEDED"))]
         ELSE [requests |-> MapSet(m, key,
                                   [requestData EXCEPT !.count = @ + 1]),
               out |-> CallNext]

\* As RateLimitStep, but an admitted request inside a window is not counted.
RateLimitStepNoIncrement(m, key, t) ==
    IF ~MapHas(m, key)
    THEN [requests |-> MapSet(m, key, NewCounter(t)), out |-> CallNext]
    ELSE LET requestData == m[key] IN
         IF WindowExpired(t, requestData)
         THEN [requests |-> MapSet(m, key, NewCounter(t)), out |-> CallNext]
         ELSE IF LimitReached(requestData)
         THEN [requests |-> m,
               out |-> Respond(429, formatErrorResponse("Too many requests",
                                                        "RATE_LIMIT_EXCEEDED"))]
         ELSE [requests |-> m, out |-> CallNext]

\* As RateLimitStep, but requestData.count-- in place of requestData.count++.
RateLimitStepDecrements(m, key, t) ==
    IF ~MapHas(m, key)
    THEN [requests |-> MapSet(m, key, NewCounter(t)), out |-> CallNext]
    ELSE LET requestData == m[key] IN
         IF WindowExpired(t, requestData)
         THEN [requests |-> MapSet(m, key, NewCounter(t)), out |-> CallNext]
         ELSE IF LimitReached(requestData)
         THEN [requests |-> m,
               out |-> Respond(429, formatErrorResponse("Too many requests",
                                                        "RATE_LIMIT_EXCEEDED"))]
         ELSE [requests |-> MapSet(m, key,
                                   [requestData EXCEPT !.count = @ - 1]),
               out |-> CallNext]

\* As RateLimitStep, but the rejecting branch writes the response and then
\* goes on to next().
RateLimitStepRespondsAndContinues(m, key, t) ==
    IF ~MapHas(m, key)
    THEN [requests |-> MapSet(m, key, NewCounter(t)), out |-> CallNext]
    ELSE LET requestData == m[key] IN
         IF WindowExpired(t, requestData)
         THEN [requests |-> MapSet(m, key, NewCounter(t)), out |-> CallNext]
         ELSE IF LimitReached(requestData)
         THEN [requests |-> m,
               out |-> [next |-> 1, status |-> 429,
                        body |-> formatErrorResponse("Too many requests",
                                                     "RATE_LIMIT_EXCEEDED")]]
         ELSE [requests |-> MapSet(m, key,
                                   [requestData EXCEPT !.count = @ + 1]),
               out |-> CallNext]

\* As RateLimitStep, but the request is counted before the limit is checked.
RateLimitStepCountsRejected(m, key, t) ==
    IF ~MapHas(m, key)
    THEN [requests |-> MapSet(m, key, NewCounter(t)), out |-> CallNext]
    ELSE LET requestData == m[key] IN
         IF WindowExpired(t, requestData)
         THEN [requests |-> MapSet(m, key, NewCounter(t)), out |-> CallNext]
         ELSE [requests |-> MapSet(m, key,
                                   [requestData EXCEPT !.count = @ + 1]),
               out |-> IF LimitReached(requestData)
                       THEN Respond(429,
                                formatErrorResponse("Too many requests",
                                                    "RATE_LIMIT_EXCEEDED"))
                       ELSE CallNext]

\* As RateLimitStep, but an admitted request inside a window also moves the
\* window's end to t + windowMs.
RateLimitStepExtendsWindow(m, key, t) ==
    IF ~MapHas(m, key)
    THEN [requests |-> MapSet(m, key, NewCounter(t)), out |-> CallNext]
    ELSE LET requestData == m[key] IN
         IF WindowExpired(t, requestData)
         THEN [requests |-> MapSet(m, key, NewCounter(t)), out |-> CallNext]
         ELSE IF LimitReached(requestData)
         THEN [requests |-> m,
               out |-> Respond(429, formatErrorResponse("Too many requests",
                                                        "RATE_LIMIT_EXCEEDED"))]
         ELSE [requests |-> MapSet(m, key,
                                   [count |-> requestData.count + 1,
                                    resetTime |-> t + windowMs]),
               out |-> CallNext]

\* The middleware returned by rateLimit, on the Map m, for key at Date.now() = t:
\* the Map afterwards and what was done to res/next.
RateLimitStep(m, key, t) ==
    IF ~MapHas(m, key)
    THEN [requests |-> MapSet(m, key, NewCounter(t)), out |-> CallNext]
    ELSE LET requestData == m[key] IN
         IF WindowExpired(t, requestData)
         THEN [requests |-> MapSet(m, key, NewCounter(t)), out |-> CallNext]
         ELSE IF LimitReached(requestData)
         THEN [requests |-> m,
               out |-> Respond(429, formatErrorResponse("Too many requests",
                                                        "RATE_LIMIT_EXCEEDED"))]
         ELSE [requests |-> MapSet(m, key,
                                   [requestData EXCEPT !.count = @ + 1]),
               out |-> CallNext]

\* ---------------------------------------------------------------- state
NoWin == [kind |-> "none", reqs |-> 0, admitted |-> 0]
NoLast == [key |-> Null, first |-> FALSE, had |-> FALSE, prevCount |-> 0,
           prevReset |-> 0, out |-> [next |-> 0, status |-> 0, body |-> Null],
           ord |-> 0, soloOut |-> Null, freshOut |-> Null]

Min(a, b) == IF a < b THEN a ELSE b

\* No request is walking a route and nothing has been invoked on its own.
NoReq == [route |-> Null, header |-> [kind |-> "undefined", value |-> <<>>],
          user |-> [kind |-> "undefined", role |-> Undefined]]
NoRes == [status |-> 0, body |-> Null]
NoErr == [name |-> Null, code |-> 0, statusCode |-> 0, message |-> "",
          errors |-> <<>>, keyValue |-> <<>>]
NoUnit == [mw |-> Null, roles |-> {},
           user |-> [kind |-> "undefined", role |-> Undefined],
           err |-> NoErr, out |-> [next |-> 0, status |-> 0, body |-> Null]]

\* The controllers' requests are served in these slots, so that at most
\* that many are between their read and their write at a time.
Slots == {"r1", "r2"}
NoBody == [email |-> Undefined]
NoServed == [op |-> Null, step |-> Null, email |-> Undefined,
             password |-> Undefined,
             currentPassword |-> Undefined, newPassword |-> Undefined,
             id |-> 0, found |-> 0, match |-> FALSE, done |-> FALSE,
             res |-> [status |-> 0], token |-> 0, before |-> <<>>]

\* An empty users collection and no request at the controllers.
UsersIdle ==
    /\ users = <<>>
    /\ inflight = EmptyBag
    /\ today = 0
    /\ served = NoServed

\* useState({ email: '', password: '' }), useState({}), no event handled.
NoFormData == [email |-> <<>>, password |-> <<>>]
NoValidationErrors == [email |-> Undefined, password |-> Undefined]
NoEvent == [type |-> Null, formData |-> NoFormData, isLoading |-> FALSE,
            valid |-> FALSE, called |-> 0]
FormIdle ==
    /\ formData = NoFormData
    /\ validationErrors = NoValidationErrors
    /\ isLoading = FALSE
    /\ calls = <<>>
    /\ fevent = NoEvent

AuthIdle ==
    /\ areq = NoReq
    /\ ares = NoRes
    /\ apc = 0
    /\ atrace = <<>>
    /\ unit = NoUnit

\* const rateLimit = (windowMs, max) => { const requests = new Map(); ... }
Init ==
    /\ windowMs \in 1..MaxWindow
    /\ max \in 1..MaxMax
    /\ requests = EmptyMap
    /\ now = 0
    /\ last = NoLast
    /\ win = [k \in Addresses |-> NoWin]
    /\ admits = [k \in Addresses |-> [i \in 1..(windowMs + 1) |-> 0]]
    /\ seen = {}
    /\ solo = [k \in Addresses |-> EmptyMap]
    /\ fresh = [k \in Addresses |-> EmptyMap]
    /\ AuthIdle
    /\ UsersIdle
    /\ FormIdle

\* Date.now() advances between invocations.
Tick ==
    /\ now < MaxTime
    /\ now' = now + 1
    /\ admits' = [k \in Addresses |->
                    [i \in 1..(windowMs + 1) |->
                        IF i = 1 THEN 0 ELSE admits[k][i - 1]]]
    /\ last' = NoLast
    /\ UNCHANGED <<windowMs, max, requests, win, seen, solo, fresh>>
    /\ UNCHANGED restOfLimiter

\* The bookkeeping of key's window after an invocation that saw the Map
\* before and left the Map after, with out done to res/next.  A window opens
\* when the key's counter is created or replaced.
WindowAfter(before, after, key, out) ==
    IF ~MapHas(before, key)
    THEN [kind |-> "created", reqs |-> 1, admitted |-> out.next]
    ELSE IF after[key].resetTime # before[key].resetTime
    THEN [kind |-> "reset", reqs |-> 1, admitted |-> out.next]
    ELSE [kind |-> win[key].kind,
          reqs |-> Min(win[key].reqs + 1, max + 1),
          admitted |-> win[key].admitted + out.next]

\* One invocation of the middleware for the request req.
RateLimit(req) ==
    \E key \in {KeyOf(req)} :
    \E r \in {RateLimitStep(requests, key, now)} :
    \E w \in {WindowAfter(requests, r.requests, key, r.out)} :
    \E s \in {RateLimitStep(solo[key], key, now)} :
    \E f \in {RateLimitStep(IF w.reqs = 1 THEN EmptyMap ELSE fresh[key],
                            key, now)} :
        /\ requests' = r.requests
        /\ win' = [win EXCEPT ![key] = w]
        /\ admits' = [admits EXCEPT ![key][1] = @ + r.out.next]
        /\ seen' = seen \cup {key}
        /\ solo' = [solo EXCEPT ![key] = s.requests]
        /\ fresh' = [fresh EXCEPT ![key] =
                        IF w.kind = "reset" THEN f.requests ELSE EmptyMap]
        /\ last' = [key |-> key, first |-> key \notin seen,
                    had |-> MapHas(requests, key),
                    prevCount |-> IF MapHas(requests, key)
                                  THEN requests[key].count ELSE 0,
                    prevReset |-> IF MapHas(requests, key)
                                  THEN requests[key].resetTime ELSE 0,
                    out |-> r.out, ord |-> w.reqs,
                    soloOut |-> s.out,
                    freshOut |-> IF w.kind = "reset" THEN f.out ELSE Null]
        /\ UNCHANGED <<windowMs, max, now>>
        /\ UNCHANGED restOfLimiter

Handle == \E req \in Requests : RateLimit(req)

Next == Tick \/ Handle

Spec == Init /\ [][Next]_vars

\* ---------------------------------------------------------------- claims
\* The response of the rejecting branch.
TooManyRequests ==
    Respond(429, formatErrorResponse("Too many requests", "RATE_LIMIT_EXCEEDED"))

\* The invocation that just ran was for a key whose window (as stored in the
\* key's counter) has not reached its reset time.
InsideWindow == last.key # Null /\ now < requests[last.key].resetTime

\* C1: the (max + 1)-th request of a key inside one window, all request times
\* before the window's reset time, is answered 429 RATE_LIMIT_EXCEEDED and
\* next() is not called.
C1_OverLimitRejected ==
    (InsideWindow /\ last.ord = max + 1) =>
        /\ last.out.next = 0
        /\ last.out.status = 429
        /\ last.out.body.error.code = "RATE_LIMIT_EXCEEDED"

C1_Witness ==
    /\ InsideWindow
    /\ last.ord = max + 1
    /\ last.out = TooManyRequests
    /\ max = MaxMax

\* C2: the first max requests of a key's window, with timestamps before the
\* window's reset time, each call next() and none is rejected.
C2_UnderLimitAdmitted ==
    (InsideWindow /\ last.ord <= max) => last.out = CallNext

C2_Witness ==
    /\ InsideWindow
    /\ max = MaxMax
    /\ last.ord = max
    /\ win[last.key].admitted = max
    /\ last.out = CallNext


\* The invocation that just ran found a counter for its key and ran at or
\* after that counter's reset time.
AtOrAfterReset == last.key # Null /\ last.had /\ now >= last.prevReset

\* C3: a request for a key that has a counter, at a time t >= resetAt, is
\* always admitted, also when t is exactly resetAt.
C3_AdmittedAtOrAfterReset ==
    AtOrAfterReset => last.out = CallNext

\* C4: a request for a key whose counter has t >= resetAt replaces the
\* counter by a fresh one (count = 1, resetAt = t + windowMs); the stale
\* counter is never incremented.
C4_StaleCounterReplaced ==
    AtOrAfterReset =>
        requests[last.key] = [count |-> 1, resetTime |-> now + windowMs]

\* C5: a rejected request leaves the whole Map as it was: the count and the
\* resetTime of its key, and the counters of all other keys.
C5_RejectLeavesCounters ==
    [][(last'.key # Null /\ last'.out.next = 0) => requests' = requests]_vars

C5_Witness ==
    /\ last.key # Null
    /\ last.out = TooManyRequests
    /\ requests[last.key] =
           [count |-> last.prevCount, resetTime |-> last.prevReset]
    /\ DOMAIN requests = Addresses

\* C6: distinct keys are independent: the counter and every decision of a
\* key are those of a limiter that is handed this key's requests only, so
\* the requests of another key (exhausting its quota included) change
\* neither.
C6_KeysIndependent ==
    /\ \A k \in Addresses :
          /\ MapHas(requests, k) <=> MapHas(solo[k], k)
          /\ MapHas(requests, k) => requests[k] = solo[k][k]
    /\ last.key # Null => last.out = last.soloOut

C6_Witness ==
    /\ win["A"].reqs = max + 1
    /\ win["A"].admitted = max
    /\ now < requests["A"].resetTime
    /\ last.key = "B"
    /\ last.first
    /\ last.out = CallNext
    /\ requests["B"] = solo["B"]["B"]

\* C7: after a request at time t has reset a key's window, the key behaves
\* as a key first seen at t: its counter and its decisions are those of a
\* limiter that was empty at t, the first max requests of the new window
\* (before the new resetTime) are admitted and the next one is rejected,
\* whatever happened in earlier windows.
C7_ResetLikeFreshKey ==
    /\ \A k \in Addresses :
          win[k].kind = "reset" =>
              /\ MapHas(fresh[k], k)
              /\ requests[k] = fresh[k][k]
    /\ (last.key # Null /\ win[last.key].kind = "reset") =>
          /\ last.out = last.freshOut
          /\ InsideWindow => (last.out = CallNext <=> last.ord <= max)
          /\ (InsideWindow /\ last.ord > max) => last.out = TooManyRequests

C7_Witness ==
    /\ InsideWindow
    /\ win[last.key].kind = "reset"
    /\ last.ord = max + 1
    /\ win[last.key].admitted = max
    /\ last.out = TooManyRequests
    /\ max = MaxMax

\* C8: the first request ever handled for a key is admitted and creates the
\* key's counter with count = 1 and resetTime = now + windowMs; a key has a
\* counter only once a request of it has been handled.
C8_FirstRequestCreatesCounter ==
    /\ DOMAIN requests = seen
    /\ (last.key # Null /\ last.first) =>
          /\ last.out = CallNext
          /\ ~last.had
          /\ requests[last.key] = [count |-> 1, resetTime |-> now + windowMs]

C8_Witness ==
    /\ last.key = "B"
    /\ last.first
    /\ seen = {"A", "B"}
    /\ now > 0
    /\ requests["B"] = [count |-> 1, resetTime |-> now + windowMs]

RECURSIVE SumTo(_, _)
SumTo(f, n) == IF n = 0 THEN 0 ELSE f[n] + SumTo(f, n - 1)

\* The number of requests of key k admitted at the instants of the closed
\* interval [now - windowMs, now].
AdmittedInInterval(k) == SumTo(admits[k], windowMs + 1)

\* C9: for every key, the number of admitted requests whose timestamps lie
\* in one interval of length windowMs never exceeds 2 * max.  (Every such
\* interval ends at some instant; it is checked when the clock is there.)
C9_AtMostTwiceMax ==
    \A k \in Addresses : AdmittedInInterval(k) <= 2 * max

C9_Witness ==
    /\ max = MaxMax
    /\ \E k \in Addresses :
          /\ AdmittedInInterval(k) = 2 * max - 1
          /\ win[k].kind = "reset"
          /\ win[k].admitted = max

\* C10: with every invocation one uninterrupted step and the invocations of
\* the clients interleaved in any order, no key is admitted more than max
\* times within one of its windows.
C10_NoOverAdmission ==
    \A k \in Addresses : win[k].admitted <= max

C10_Witness ==
    /\ max = MaxMax
    /\ \A k \in Addresses :
          /\ win[k].admitted = max
          /\ win[k].reqs = max + 1
          /\ now < requests[k].resetTime
    /\ win["A"].kind = "reset"
    /\ win["B"].kind = "created"

\* C11: every invocation with a well-formed request ends with exactly one
\* decision: next() called once and no response written, or the 429 response
\* written and next() not called; never both, never neither.  This holds of
\* the invocation that just ran and of the invocation of every request in
\* the state reached.
C11_ExactlyOneDecision ==
    /\ last.key # Null => (last.out = CallNext \/ last.out = TooManyRequests)
    /\ \A req \in Requests :
          LET out == RateLimitStep(requests, KeyOf(req), now).out
          IN  \/ out.next = 1 /\ out.status = 0 /\ out.body = Null
              \/ /\ out.next = 0
                 /\ out.status = 429
                 /\ out.body.error.code = "RATE_LIMIT_EXCEEDED"

C11_Witness ==
    /\ last.key # Null
    /\ last.out = TooManyRequests
    /\ seen = Addresses
    /\ \E req \in Requests :
          RateLimitStep(requests, KeyOf(req), now).out = CallNext

\* The invocation that just ran repeats, for the same key at the same
\* Date.now(), the invocation that opened the key's window.
RepeatedCall ==
    /\ last.key # Null
    /\ last.ord >= 2
    /\ requests[last.key].resetTime = now + windowMs

\* C12 as claimed: the second of two calls with the identical (key, now)
\* mutates the state again.
C12_SecondCallMutates ==
    RepeatedCall =>
        requests[last.key] #
            [count |-> last.prevCount, resetTime |-> last.prevReset]

\* C12 as amended: the second of two calls with the identical (key, now) is
\* not a repetition of the first: it increments the count again when the
\* count is below max, and it is rejected, leaving the counter as it is,
\* when the count has reached max; with max = 1 the first call of a fresh
\* key is admitted and the second, identical, call is rejected.
C12_NotIdempotent ==
    RepeatedCall =>
        /\ last.prevCount < max =>
              /\ last.out = CallNext
              /\ requests[last.key].count = last.prevCount + 1
        /\ last.prevCount >= max =>
              /\ last.out = TooManyRequests
              /\ requests[last.key].count = last.prevCount
        /\ max = 1 =>
              /\ last.out = TooManyRequests
              /\ win[last.key].admitted = 1

C12_Witness ==
    /\ RepeatedCall
    /\ max = 1
    /\ win[last.key].kind = "created"
    /\ win[last.key].admitted = 1
    /\ last.out = TooManyRequests

\* C13: every stored counter has count >= 0.
C13_CountNonNegative ==
    \A k \in DOMAIN requests : requests[k].count >= 0

C13_Witness ==
    /\ DOMAIN requests = Addresses
    /\ max = MaxMax
    /\ \A k \in Addresses : requests[k].count = max
    /\ win["A"].kind = "reset"

\* C14: the keys of the Map only grow: no step (admit, reject, window reset)
\* removes a key, and a key keeps one counter.
C14_KeysOnlyGrow ==
    [][/\ DOMAIN requests \subseteq DOMAIN requests'
       /\ \A k \in DOMAIN requests' :
             requests'[k] \in [count : Int, resetTime : Int]]_vars

C14_Witness ==
    /\ DOMAIN requests = Addresses
    /\ win["A"].kind = "reset"
    /\ win["B"].reqs = max + 1
    /\ last.out = TooManyRequests

\* C26: a request admitted inside an open window (one whose end is still
\* ahead) adds exactly 1 to its key's count and leaves the window's end
\* where it was; the end of a key's window changes only in a step that
\* replaces the key's counter by a new one (count 1, end now + windowMs), and
\* then it grows.
C26_WindowEndFixed ==
    [][/\ (/\ last'.key # Null
            /\ last'.had
            /\ last'.out.next = 1
            /\ now < requests[last'.key].resetTime) =>
               /\ requests'[last'.key].count = requests[last'.key].count + 1
               /\ requests'[last'.key].resetTime =
                      requests[last'.key].resetTime
        /\ \A k \in DOMAIN requests :
              requests'[k].resetTime # requests[k].resetTime =>
                 /\ k = last'.key
                 /\ requests'[k] = NewCounter(now)
                 /\ requests'[k].resetTime > requests[k].resetTime]_vars

\* A key's counter has been replaced, and the second request of the new
\* window has just been admitted before the window's end.
C26_Witness ==
    /\ last.key # Null
    /\ last.had
    /\ last.out.next = 1
    /\ win[last.key].kind = "reset"
    /\ requests[last.key].count = 2
    /\ requests[last.key].resetTime = last.prevReset
    /\ now < last.prevReset

\* ------------------------------------------------- authenticate, authorize
\* An Authorization header value is a string made of these pieces; 'Bearer '
\* is one piece, the others are what clients put after or in place of it.
Pieces == {"Bearer ", "admin-token", "user-token", "expired-token",
           "invalid-format"}
Strings == UNION {[1..n -> Pieces] : n \in 0..MaxHeaderLen}

\* What req.header('Authorization') returns: undefined, null or a string.
Absent == [kind |-> "undefined", value |-> <<>>]
Headers == {Absent, [kind |-> "null", value |-> <<>>]}
               \cup {[kind |-> "string", value |-> v] : v \in Strings}

\* req.user: undefined (never set), null, or an object with a role.
NoUser == [kind |-> "undefined", role |-> Undefined]
Users == {NoUser, [kind |-> "null", role |-> Undefined]}
             \cup {[kind |-> "object", role |-> r] :
                       r \in {"admin", "user", Undefined}}

\* String.prototype.replace(piece, ''): the first occurrence is removed.
ReplaceFirst(str, piece) ==
    IF \E i \in 1..Len(str) : str[i] = piece
    THEN LET i == CHOOSE i \in 1..Len(str) :
                      /\ str[i] = piece
                      /\ \A j \in 1..(i - 1) : str[j] # piece
         IN  SubSeq(str, 1, i - 1) \o SubSeq(str, i + 1, Len(str))
    ELSE str

\* req.header('Authorization')?.replace('Bearer ', '')
TokenOf(header) ==
    IF header.kind = "string"
    THEN [kind |-> "string", value |-> ReplaceFirst(header.value, "Bearer ")]
    ELSE Absent

\* token === undefined
NoTokenUndefinedOnly(token) == token.kind # "string"

\* !token
NoToken(token) == token.kind # "string" \/ token.value = <<>>

\* jwt.verify(token, secret): the decoded payload, or the error thrown.
jwtVerify(token) ==
    IF token = <<"admin-token">>
    THEN [ok |-> TRUE, decoded |-> [kind |-> "object", role |-> "admin"],
          error |-> Null]
    ELSE IF token = <<"user-token">>
    THEN [ok |-> TRUE, decoded |-> [kind |-> "object", role |-> "user"],
          error |-> Null]
    ELSE IF token = <<"expired-token">>
    THEN [ok |-> FALSE, decoded |-> NoUser, error |-> "TokenExpiredError"]
    ELSE [ok |-> FALSE, decoded |-> NoUser, error |-> "JsonWebTokenError"]

\* As authenticate, but the catch block lets the request through.
authenticateNextInCatch(req) ==
    LET token == TokenOf(req.header) IN
    IF NoToken(token)
    THEN [user |-> req.user,
          out |-> Respond(401, formatErrorResponse(
                      "Access denied. No token provided.", "NO_TOKEN"))]
    ELSE LET v == jwtVerify(token.value) IN
         IF v.ok
         THEN [user |-> v.decoded, out |-> CallNext]
         ELSE [user |-> req.user, out |-> CallNext]

\* authenticate(req, res, next): req.user afterwards and what was done to
\* res/next.
authenticate(req) ==
    LET token == TokenOf(req.header) IN
    IF NoToken(token)
    THEN [user |-> req.user,
          out |-> Respond(401, formatErrorResponse(
                      "Access denied. No token provided.", "NO_TOKEN"))]
    ELSE LET v == jwtVerify(token.value) IN
         IF v.ok
         THEN [user |-> v.decoded, out |-> CallNext]
         ELSE [user |-> req.user,
               out |-> Respond(401, formatErrorResponse(
                           "Invalid token.", "INVALID_TOKEN"))]

\* As authorize, but an empty list of roles lets every user through.
authorizeEmptyAllowsAll(roles, req) ==
    IF req.user.kind # "object"
    THEN Respond(401, formatErrorResponse(
             "Access denied. User not authenticated.", "NOT_AUTHENTICATED"))
    ELSE IF roles # {} /\ req.user.role \notin roles
    THEN Respond(403, formatErrorResponse(
             "Access denied. Insufficient permissions.",
             "INSUFFICIENT_PERMISSIONS"))
    ELSE CallNext

\* authorize(...roles)(req, res, next): what was done to res/next.
authorize(roles, req) ==
    IF req.user.kind # "object"
    THEN Respond(401, formatErrorResponse(
             "Access denied. User not authenticated.", "NOT_AUTHENTICATED"))
    ELSE IF req.user.role \notin roles
    THEN Respond(403, formatErrorResponse(
             "Access denied. Insufficient permissions.",
             "INSUFFICIENT_PERMISSIONS"))
    ELSE CallNext

\* ------------------------------------------------------------ the routes
Layer(mw, roles, name) == [mw |-> mw, roles |-> roles, name |-> name]
Private(name) ==
    <<Layer("authenticate", {}, Null), Layer("controller", {}, name)>>
AdminOnlyWithoutAuthorize(name) ==
    <<Layer("authenticate", {}, Null), Layer("controller", {}, name)>>
AdminOnly(name) ==
    <<Layer("authenticate", {}, Null), Layer("authorize", {"admin"}, Null),
      Layer("controller", {}, name)>>

Routes == {"POST /register", "POST /login", "GET /me", "PUT /me",
           "PUT /change-password", "POST /logout", "GET /users",
           "DELETE /users/:id"}

\* router.<method>(path, ...handlers)
Stack(route) ==
    CASE route = "POST /register" -> <<Layer("controller", {}, "register")>>
      [] route = "POST /login" -> <<Layer("controller", {}, "login")>>
      [] route = "GET /me" -> Private("getMe")
      [] route = "PUT /me" -> Private("updateMe")
      [] route = "PUT /change-password" -> Private("changePassword")
      [] route = "POST /logout" -> Private("logout")
      [] route = "GET /users" -> AdminOnly("getAllUsers")
      [] route = "DELETE /users/:id" -> AdminOnly("deleteUser")

\* The layer the request is at, and whether it is at one.
AtLayer(mw) ==
    /\ areq.route # Null
    /\ apc \in 1..Len(Stack(areq.route))
    /\ Stack(areq.route)[apc].mw = mw
Finished == areq.route # Null /\ apc = Len(Stack(areq.route)) + 1

\* A request for route arrives with the Authorization header given.
Arrive(route, header) ==
    /\ apc = 0
    /\ areq' = [route |-> route, header |-> header, user |-> NoUser]
    /\ ares' = NoRes
    /\ apc' = 1
    /\ atrace' = <<>>
    /\ unit' = NoUnit
    /\ UNCHANGED restOfAuth

\* What a middleware's outcome does to the walk: next() moves the request to
\* the next layer, a response ends the walk.
Walk(name, out) ==
    IF out.next = 1
    THEN /\ apc' = apc + 1
         /\ atrace' = Append(atrace, name)
         /\ ares' = ares
    ELSE /\ apc' = Len(Stack(areq.route)) + 1
         /\ atrace' = atrace
         /\ ares' = [status |-> out.status, body |-> out.body]

\* The request is handed to authenticate.
Authenticate ==
    /\ AtLayer("authenticate")
    /\ \E r \in {authenticate(areq)} :
          /\ areq' = [areq EXCEPT !.user = r.user]
          /\ Walk("authenticate", r.out)
    /\ UNCHANGED <<restOfAuth, unit>>

\* The request is handed to authorize(...roles).
Authorize ==
    /\ AtLayer("authorize")
    /\ Walk("authorize", authorize(Stack(areq.route)[apc].roles, areq))
    /\ UNCHANGED <<restOfAuth, areq, unit>>

\* The request reaches the route's controller (its own response is not
\* modelled here).
Controller ==
    /\ AtLayer("controller")
    /\ apc' = apc + 1
    /\ atrace' = Append(atrace, Stack(areq.route)[apc].name)
    /\ UNCHANGED <<restOfAuth, areq, ares, unit>>

\* The request is over; the server waits for the next one.
Finish ==
    /\ Finished
    /\ areq' = NoReq
    /\ ares' = NoRes
    /\ apc' = 0
    /\ atrace' = <<>>
    /\ UNCHANGED <<restOfAuth, unit>>

\* ------------------------------------------------------------ errorHandler
\* The field errors of a Mongoose ValidationError (err.errors, one entry per
\* path, in insertion order).
FieldError(path) == [path |-> path, message |-> <<path, " is required">>]
Paths == {"name", "email", "password"}
FieldErrorLists ==
    {l \in UNION {[1..n -> {FieldError(q) : q \in Paths}] :
                      n \in 0..MaxFieldErrors} :
        \A i, j \in 1..Len(l) : i # j => l[i].path # l[j].path}

\* The errors handed to errorHandler.  code 0, statusCode 0 and message ""
\* stand for a property that is absent (all are falsy); a duplicate key
\* error (code 11000) names the keys of its index in keyValue.
Errors ==
    {e \in [name : {"ValidationError", "MongoServerError", "JsonWebTokenError",
                    "TokenExpiredError", "Error"},
            code : {0, 11000},
            statusCode : {0, 404},
            message : {"", "boom"},
            errors : FieldErrorLists,
            keyValue : {<<>>, <<"email">>, <<"username", "email">>}] :
        /\ (e.code = 11000) <=> (e.keyValue # <<>>)
        /\ e.name # "ValidationError" => e.errors = <<>>}

\* Object.values(err.errors).map(e => e.message)
Messages(errors) == [i \in 1..Len(errors) |-> errors[i].message]

\* As errorHandler, but the duplicate key rule comes first.
errorHandlerDuplicateFirst(err) ==
    IF err.code = 11000
    THEN Respond(400, formatErrorResponseWith(
             <<err.keyValue[1], " already exists">>, "DUPLICATE_ERROR", <<>>))
    ELSE IF err.name = "ValidationError"
    THEN Respond(400, formatErrorResponseWith(
             "Validation Error", "VALIDATION_ERROR", Messages(err.errors)))
    ELSE IF err.name = "JsonWebTokenError"
    THEN Respond(401, formatErrorResponse("Invalid token", "INVALID_TOKEN"))
    ELSE IF err.name = "TokenExpiredError"
    THEN Respond(401, formatErrorResponse("Token expired", "TOKEN_EXPIRED"))
    ELSE Respond(IF err.statusCode # 0 THEN err.statusCode ELSE 500,
                 formatErrorResponse(
                     IF err.message # "" THEN err.message
                                         ELSE "Internal Server Error",
                     "INTERNAL_ERROR"))

\* errorHandler(err, req, res, next): what was done to res/next.
errorHandler(err) ==
    IF err.name = "ValidationError"
    THEN Respond(400, formatErrorResponseWith(
             "Validation Error", "VALIDATION_ERROR", Messages(err.errors)))
    ELSE IF err.code = 11000
    THEN Respond(400, formatErrorResponseWith(
             <<err.keyValue[1], " already exists">>, "DUPLICATE_ERROR", <<>>))
    ELSE IF err.name = "JsonWebTokenError"
    THEN Respond(401, formatErrorResponse("Invalid token", "INVALID_TOKEN"))
    ELSE IF err.name = "TokenExpiredError"
    THEN Respond(401, formatErrorResponse("Token expired", "TOKEN_EXPIRED"))
    ELSE Respond(IF err.statusCode # 0 THEN err.statusCode ELSE 500,
                 formatErrorResponse(
                     IF err.message # "" THEN err.message
                                         ELSE "Internal Server Error",
                     "INTERNAL_ERROR"))

\* authorize(...roles) invoked on its own, with any req.user.
UnitAuthorize(roles, user) ==
    /\ apc = 0
    /\ unit' = [mw |-> "authorize", roles |-> roles, user |-> user,
                err |-> NoErr,
                out |-> authorize(roles, [NoReq EXCEPT !.user = user])]
    /\ UNCHANGED <<restOfAuth, areq, ares, apc, atrace>>

\* errorHandler invoked with an error.
UnitErrorHandler(err) ==
    /\ apc = 0
    /\ unit' = [mw |-> "errorHandler", roles |-> {}, user |-> NoUser,
                err |-> err, out |-> errorHandler(err)]
    /\ UNCHANGED <<restOfAuth, areq, ares, apc, atrace>>

\* The limiter is not part of SpecAuth: it stays as constructed.
LimiterIdle ==
    /\ windowMs = 1
    /\ max = 1
    /\ requests = EmptyMap
    /\ now = 0
    /\ last = NoLast
    /\ win = [k \in Addresses |-> NoWin]
    /\ admits = [k \in Addresses |-> [i \in 1..2 |-> 0]]
    /\ seen = {}
    /\ solo = [k \in Addresses |-> EmptyMap]
    /\ fresh = [k \in Addresses |-> EmptyMap]

InitAuth == LimiterIdle /\ AuthIdle /\ UsersIdle /\ FormIdle

ArriveAny == \E route \in Routes, header \in Headers : Arrive(route, header)
UnitAuthorizeAny ==
    \E roles \in SUBSET {"admin", "user"}, user \in Users :
        UnitAuthorize(roles, user)
UnitErrorHandlerAny == \E err \in Errors : UnitErrorHandler(err)

NextAuth ==
    \/ ArriveAny
    \/ Authenticate
    \/ Authorize
    \/ Controller
    \/ Finish
    \/ UnitAuthorizeAny
    \/ UnitErrorHandlerAny

SpecAuth == InitAuth /\ [][NextAuth]_vars

\* ------------------------------------------------- claims on the middleware
\* out is next() called and nothing written / the response with the status
\* and error code given and next() not called.
CalledNext(out) == out.next = 1 /\ out.status = 0
Answered(out, status, code) ==
    /\ out.next = 0
    /\ out.status = status
    /\ out.body.error.code = code

\* The request walking a route has been through authenticate.
AuthenticateRan ==
    /\ areq.route # Null
    /\ Stack(areq.route)[1].mw = "authenticate"
    /\ apc > 1

\* authenticate wrote the response with this status and code, and the walk
\* ended there: next() was not called.
AuthenticateAnswered(status, code) ==
    /\ Finished
    /\ atrace = <<>>
    /\ ares.status = status
    /\ ares.body.error.code = code

\* C15: a request that carries no token (Authorization header absent, null,
\* or empty once 'Bearer ' is removed) is answered 401 NO_TOKEN by
\* authenticate, next() is not called and req.user is not set.
C15_NoTokenRejected ==
    (/\ AuthenticateRan
     /\ \/ areq.header.kind \in {"undefined", "null"}
        \/ areq.header.value \in {<<>>, <<"Bearer ">>}) =>
        /\ AuthenticateAnswered(401, "NO_TOKEN")
        /\ areq.user = NoUser

C15_Witness ==
    /\ AuthenticateRan
    /\ areq.header = [kind |-> "string", value |-> <<"Bearer ">>]
    /\ AuthenticateAnswered(401, "NO_TOKEN")

\* The verification authenticate asks of jwt for the request's header.
Verification == jwtVerify(TokenOf(areq.header).value)
CarriesToken ==
    areq.header.kind = "string"
        /\ areq.header.value \notin {<<>>, <<"Bearer ">>}

C17_MalformedHeaderNoToken ==
    (/\ AuthenticateRan
     /\ areq.header.kind = "string"
     /\ areq.header.value # <<>>
     /\ areq.header.value[1] # "Bearer ") =>
        AuthenticateAnswered(401, "NO_TOKEN")

\* C18: authorize(...roles) does exactly one thing per request: 401
\* NOT_AUTHENTICATED when req.user is absent, 403 INSUFFICIENT_PERMISSIONS
\* when req.user.role is not one of the roles, next() with no response
\* exactly when req.user.role is one of the roles.
C18_AuthorizeOutcome ==
    unit.mw = "authorize" =>
        /\ unit.user.kind # "object" =>
              Answered(unit.out, 401, "NOT_AUTHENTICATED")
        /\ (unit.user.kind = "object" /\ unit.user.role \notin unit.roles) =>
              Answered(unit.out, 403, "INSUFFICIENT_PERMISSIONS")
        /\ CalledNext(unit.out) <=>
              (unit.user.kind = "object" /\ unit.user.role \in unit.roles)
        /\ CalledNext(unit.out) \/ unit.out.next = 0

C18_Witness ==
    /\ unit.mw = "authorize"
    /\ unit.roles = {}
    /\ unit.user = [kind |-> "object", role |-> "admin"]
    /\ Answered(unit.out, 403, "INSUFFICIENT_PERMISSIONS")

\* The controller the request has reached, if any.
ReachedController(name) ==
    atrace # <<>> /\ atrace[Len(atrace)] = name

\* C19: getAllUsers and deleteUser run only after authenticate and then
\* authorize('admin') have both called next() for the request, which then
\* carries a verified token whose role is 'admin'; getMe, updateMe,
\* changePassword and logout are never reached by a request that
\* authenticate rejected.
C19_ControllersGuarded ==
    /\ \A name \in {"getAllUsers", "deleteUser"} :
          ReachedController(name) =>
              /\ atrace = <<"authenticate", "authorize", name>>
              /\ CarriesToken
              /\ Verification.ok
              /\ Verification.decoded.role = "admin"
              /\ areq.user.role = "admin"
    /\ \A name \in {"getMe", "updateMe", "changePassword", "logout"} :
          ReachedController(name) =>
              /\ atrace = <<"authenticate", name>>
              /\ CarriesToken
              /\ Verification.ok
              /\ ares = NoRes
    /\ (AuthenticateRan /\ atrace = <<>>) => Finished /\ ares.status = 401

C19_Witness ==
    /\ areq.route = "DELETE /users/:id"
    /\ atrace = <<"authenticate", "authorize", "deleteUser">>
    /\ Finished

\* C20: errorHandler writes one response per error, chosen by the first rule
\* that matches, in this order: name 'ValidationError' -> 400
\* VALIDATION_ERROR with every field message in details; code 11000 -> 400
\* DUPLICATE_ERROR naming the duplicated field; name 'JsonWebTokenError' ->
\* 401 INVALID_TOKEN; name 'TokenExpiredError' -> 401 TOKEN_EXPIRED; anything
\* else -> err.statusCode or 500, INTERNAL_ERROR.
C20_ErrorHandlerRules ==
    unit.mw = "errorHandler" =>
        LET err == unit.err
            out == unit.out
        IN  /\ out.next = 0
            /\ err.name = "ValidationError" =>
                  /\ Answered(out, 400, "VALIDATION_ERROR")
                  /\ Len(out.body.error.details) = Len(err.errors)
                  /\ \A i \in 1..Len(err.errors) :
                        out.body.error.details[i] = err.errors[i].message
            /\ (err.name # "ValidationError" /\ err.code = 11000) =>
                  /\ Answered(out, 400, "DUPLICATE_ERROR")
                  /\ out.body.error.message[1] = err.keyValue[1]
            /\ (err.name = "JsonWebTokenError" /\ err.code # 11000) =>
                  Answered(out, 401, "INVALID_TOKEN")
            /\ (err.name = "TokenExpiredError" /\ err.code # 11000) =>
                  Answered(out, 401, "TOKEN_EXPIRED")
            /\ (/\ err.name \notin {"ValidationError", "JsonWebTokenError",
                                    "TokenExpiredError"}
                /\ err.code # 11000) =>
                  Answered(out, IF err.statusCode # 0 THEN err.statusCode
                                                      ELSE 500,
                           "INTERNAL_ERROR")

C20_Witness ==
    /\ unit.mw = "errorHandler"
    /\ unit.err.name = "ValidationError"
    /\ unit.err.code = 11000
    /\ Len(unit.err.errors) = MaxFieldErrors
    /\ Answered(unit.out, 400, "VALIDATION_ERROR")

\* ------------------------------------------------------------ User model
\* The values the request bodies are made of.  Undefined is a field the body
\* does not have.
Names == {"John Doe"}
Emails == {"john@example.com", "jane@example.com"}
InvalidEmail == "invalid-email"
Passwords == {"password123", "newpassword123"}
ShortPassword == "123"
MinPasswordLength == 6

\* !v for the values a body field can take
Falsy(v) == v = Undefined \/ v = ""

\* The password hash the pre-save hook stores (bcrypt), and
\* user.comparePassword(candidate) against a stored hash.
Hash(password) == <<"bcrypt", password>>
comparePassword(candidate, hash) == hash = Hash(candidate)

\* An Error with the message given, and the errors save() rejects with.
ErrorOf(message) == [NoErr EXCEPT !.name = "Error", !.message = message]
ValidationError(errors) ==
    [NoErr EXCEPT !.name = "ValidationError",
                  !.message = "User validation failed", !.errors = errors]
DuplicateKeyError(path) ==
    [NoErr EXCEPT !.name = "MongoServerError", !.code = 11000,
                  !.message = "E11000 duplicate key error",
                  !.keyValue = <<path>>]

\* The schema's validators, path by path: required, the email format, the
\* minimum length of the password.
ValidateName(name) ==
    IF name = Undefined THEN <<FieldError("name")>> ELSE <<>>
ValidateEmail(email) ==
    IF email = Undefined THEN <<FieldError("email")>>
    ELSE IF email \notin Emails
    THEN <<[path |-> "email",
            message |-> <<"email", " must be a valid email address">>]>>
    ELSE <<>>
ValidatePassword(password) ==
    IF password = Undefined THEN <<FieldError("password")>>
    ELSE IF Len(password) < MinPasswordLength
    THEN <<[path |-> "password",
            message |-> <<"password", " must be at least 6 characters">>]>>
    ELSE <<>>

\* User.findOne({ email }): the _id of the stored user with that email, 0
\* for null.  _id is the document's position in the collection.
findOne(us, email) ==
    IF \E i \in 1..Len(us) : us[i].email = email
    THEN CHOOSE i \in 1..Len(us) : us[i].email = email
    ELSE 0

\* User.findById(id)
findById(us, id) == IF id \in 1..Len(us) THEN id ELSE 0

\* User.findByCredentials(email, password): the user, or the rejection with
\* 'Invalid login credentials' when no user has the email or the password
\* does not match.
findByCredentials(us, email, password) ==
    LET i == findOne(us, email) IN
    IF i = 0 \/ ~comparePassword(password, us[i].password)
    THEN [threw |-> TRUE, err |-> ErrorOf("Invalid login credentials"),
          id |-> 0]
    ELSE [threw |-> FALSE, err |-> NoErr, id |-> i]

\* new User({ name, email, password }).save(): validation, the unique index
\* on email, the pre-save hook that hashes the password.
saveNew(us, body) ==
    LET errors == ValidateName(body.name) \o ValidateEmail(body.email)
                      \o ValidatePassword(body.password) IN
    IF errors # <<>>
    THEN [threw |-> TRUE, err |-> ValidationError(errors), users |-> us]
    ELSE IF findOne(us, body.email) # 0
    THEN [threw |-> TRUE, err |-> DuplicateKeyError("email"), users |-> us]
    ELSE [threw |-> FALSE, err |-> NoErr,
          users |-> Append(us, [name |-> body.name, email |-> body.email,
                                password |-> Hash(body.password),
                                lastLogin |-> 0])]

\* user.password = password; user.save() of a stored user
savePassword(us, id, password) ==
    LET errors == ValidatePassword(password) IN
    IF errors # <<>>
    THEN [threw |-> TRUE, err |-> ValidationError(errors), users |-> us]
    ELSE [threw |-> FALSE, err |-> NoErr,
          users |-> [us EXCEPT ![id].password = Hash(password)]]

\* user.lastLogin = date; user.save() of a stored user
saveLastLogin(us, id, date) == [us EXCEPT ![id].lastLogin = date]

\* user.generateAuthToken(): the token names the user; 0 is no token.
generateAuthToken(id) == id

\* user.toJSON(): the document without its password
toJSON(us, id) ==
    [id |-> id, name |-> us[id].name, email |-> us[id].email,
     lastLogin |-> us[id].lastLogin]

\* formatSuccessResponse(data, message); the timestamp is left out.
formatSuccessResponse(data, message) ==
    [success |-> TRUE, message |-> message, data |-> data]
NullData == [kind |-> Null]

\* ------------------------------------------------------------ controllers
\* Each controller runs from its call to its first write of the collection
\* (the reads it awaits and the checks between them), and from that write to
\* its response.  What a part did: done (a response was written), the user
\* found, the response, the token in it.
NotYet == [status |-> 0]
UserExists ==
    Respond(400, formatErrorResponse("User already exists with this email",
                                     "USER_EXISTS"))
MissingCredentials ==
    Respond(400, formatErrorResponse("Please provide email and password",
                                     "MISSING_CREDENTIALS"))
InvalidCredentials ==
    Respond(401, formatErrorResponse("Invalid email or password",
                                     "INVALID_CREDENTIALS"))
MissingPasswords ==
    Respond(400, formatErrorResponse("Please provide current and new password",
                                     "MISSING_PASSWORDS"))
UserNotFound ==
    Respond(404, formatErrorResponse("User not found", "USER_NOT_FOUND"))
IncorrectPassword ==
    Respond(400, formatErrorResponse("Current password is incorrect",
                                     "INCORRECT_PASSWORD"))

\* As registerFind, but the existing user is not looked at.
registerFindIgnoresExisting(us, body) ==
    [done |-> FALSE, id |-> 0, found |-> findOne(us, body.email),
     match |-> FALSE, res |-> NotYet]

\* register, up to `await user.save()`
registerFind(us, body) ==
    LET existingUser == findOne(us, body.email) IN
    IF existingUser # 0
    THEN [done |-> TRUE, id |-> 0, found |-> existingUser, match |-> FALSE,
          res |-> UserExists]
    ELSE [done |-> FALSE, id |-> 0, found |-> 0, match |-> FALSE,
          res |-> NotYet]

\* register, from `await user.save()`; a rejection goes to next(error), which
\* is errorHandler.
registerSave(us, body) ==
    LET r == saveNew(us, body) IN
    IF r.threw
    THEN [users |-> us, res |-> errorHandler(r.err), token |-> 0]
    ELSE [users |-> r.users,
          res |-> Respond(201, formatSuccessResponse(
                      [user |-> toJSON(r.users, Len(r.users)),
                       token |-> generateAuthToken(Len(r.users))],
                      "User registered successfully")),
          token |-> generateAuthToken(Len(r.users))]

\* As loginFind, but the catch hands every error to next(error).
loginFindPassesErrorOn(us, body) ==
    IF Falsy(body.email) \/ Falsy(body.password)
    THEN [done |-> TRUE, id |-> 0, found |-> 0, match |-> FALSE,
          res |-> MissingCredentials]
    ELSE LET r == findByCredentials(us, body.email, body.password) IN
         IF r.threw
         THEN [done |-> TRUE, id |-> 0, found |-> findOne(us, body.email),
               match |-> FALSE, res |-> errorHandler(r.err)]
         ELSE [done |-> FALSE, id |-> r.id, found |-> r.id, match |-> TRUE,
               res |-> NotYet]

\* login, up to `await user.save()`
loginFind(us, body) ==
    IF Falsy(body.email) \/ Falsy(body.password)
    THEN [done |-> TRUE, id |-> 0, found |-> 0, match |-> FALSE,
          res |-> MissingCredentials]
    ELSE LET r == findByCredentials(us, body.email, body.password) IN
         IF r.threw
         THEN [done |-> TRUE, id |-> 0, found |-> findOne(us, body.email),
               match |-> FALSE,
               res |-> IF r.err.message = "Invalid login credentials"
                       THEN InvalidCredentials
                       ELSE errorHandler(r.err)]
         ELSE [done |-> FALSE, id |-> r.id, found |-> r.id, match |-> TRUE,
               res |-> NotYet]

\* login, from `user.lastLogin = new Date(); await user.save()`
loginSave(us, id, date) ==
    LET saved == saveLastLogin(us, id, date) IN
    [users |-> saved,
     res |-> Respond(200, formatSuccessResponse(
                 [user |-> toJSON(saved, id),
                  token |-> generateAuthToken(id)],
                 "Login successful")),
     token |-> generateAuthToken(id)]

\* changePassword, up to `user.password = newPassword`; userId is
\* req.user.id.
changePasswordFind(us, body, userId) ==
    IF Falsy(body.currentPassword) \/ Falsy(body.newPassword)
    THEN [done |-> TRUE, id |-> 0, found |-> 0, match |-> FALSE,
          res |-> MissingPasswords]
    ELSE LET user == findById(us, userId) IN
         IF user = 0
         THEN [done |-> TRUE, id |-> 0, found |-> 0, match |-> FALSE,
               res |-> UserNotFound]
         ELSE IF ~comparePassword(body.currentPassword, us[user].password)
         THEN [done |-> TRUE, id |-> 0, found |-> user, match |-> FALSE,
               res |-> IncorrectPassword]
         ELSE [done |-> FALSE, id |-> user, found |-> user, match |-> TRUE,
               res |-> NotYet]

\* As changePasswordSave, but the new password is not assigned before the
\* save.
changePasswordSaveKeepsOld(us, id, newPassword) ==
    [users |-> us,
     res |-> Respond(200, formatSuccessResponse(
                 NullData, "Password changed successfully")),
     token |-> 0]

\* changePassword, from `user.password = newPassword; await user.save()`
changePasswordSave(us, id, newPassword) ==
    LET r == savePassword(us, id, newPassword) IN
    IF r.threw
    THEN [users |-> us, res |-> errorHandler(r.err), token |-> 0]
    ELSE [users |-> r.users,
          res |-> Respond(200, formatSuccessResponse(
                      NullData, "Password changed successfully")),
          token |-> 0]

\* The bodies the requests carry: for register the valid ones, {} and one
\* with an invalid email or a short password; for login an email and a
\* password, or one of them missing; for changePassword a current and a new
\* password (the same or not, the new one possibly short), or one missing.
ValidBodies == [name : Names, email : Emails, password : Passwords]
SomeBody == CHOOSE body \in ValidBodies : TRUE
RegisterBodies ==
    ValidBodies \cup
    {[SomeBody EXCEPT !.email = InvalidEmail],
     [SomeBody EXCEPT !.password = ShortPassword],
     [name |-> Undefined, email |-> Undefined, password |-> Undefined]}
LoginBodies ==
    [email : Emails \cup {Undefined}, password : Passwords \cup {Undefined}]
SomePassword == CHOOSE password \in Passwords : TRUE
ChangePasswordBodies ==
    [currentPassword : Passwords, newPassword : Passwords] \cup
    {[currentPassword |-> SomePassword, newPassword |-> ShortPassword],
     [currentPassword |-> Undefined, newPassword |-> SomePassword],
     [currentPassword |-> SomePassword, newPassword |-> Undefined]}

\* The fields of a body that are told about a step; Undefined for a
\* field the body does not have.
Field(body, name) == IF name \in DOMAIN body THEN body[name] ELSE Undefined

\* A request arrives while a slot is free and its handler runs up to its
\* write: r is what that part did.  A handler that answered is over; one
\* that goes on keeps what its second part reads (login's reads the user it
\* found only).
Found(op, body, r) ==
    /\ BagCardinality(inflight) < Cardinality(Slots)
    /\ inflight' = IF r.done THEN inflight
                   ELSE inflight (+) SetToBag(
                            {[op |-> op,
                              body |-> IF op = "login" THEN NoBody ELSE body,
                              id |-> r.id]})
    /\ served' = [op |-> op, step |-> "find", email |-> Field(body, "email"),
                  password |-> Field(body, "password"),
                  currentPassword |-> Field(body, "currentPassword"),
                  newPassword |-> Field(body, "newPassword"),
                  id |-> r.id, found |-> r.found, match |-> r.match,
                  done |-> r.done, res |-> r.res, token |-> 0,
                  before |-> users]
    /\ UNCHANGED <<users, today>>
    /\ UNCHANGED restOfUsers

\* The handler of the request req writes and responds: r is what that part
\* did.
Saved(req, r) ==
    /\ users' = r.users
    /\ inflight' = inflight (-) SetToBag({req})
    /\ served' = [op |-> req.op, step |-> "save",
                  email |-> Field(req.body, "email"),
                  password |-> Field(req.body, "password"),
                  currentPassword |-> Field(req.body, "currentPassword"),
                  newPassword |-> Field(req.body, "newPassword"),
                  id |-> req.id, found |-> req.id,
                  match |-> TRUE, done |-> TRUE, res |-> r.res,
                  token |-> r.token, before |-> users]
    /\ UNCHANGED today
    /\ UNCHANGED restOfUsers

\* POST /api/auth/register
Register(body) ==
    \E r \in {registerFind(users, body)} : Found("register", body, r)
RegisterSave(req) ==
    /\ req.op = "register"
    /\ \E r \in {registerSave(users, req.body)} : Saved(req, r)

\* POST /api/auth/login
Login(body) ==
    \E r \in {loginFind(users, body)} : Found("login", body, r)
LoginSave(req) ==
    /\ req.op = "login"
    /\ \E r \in {loginSave(users, req.id, today)} : Saved(req, r)

\* PUT /api/auth/change-password, past authenticate: req.user.id is the id
\* in a token the server issued, so the id of a stored user (no user is
\* deleted here, so that findById finds it).
ChangePassword(body, userId) ==
    \E r \in {changePasswordFind(users, body, userId)} :
        Found("changePassword", body, r)
ChangePasswordSave(req) ==
    /\ req.op = "changePassword"
    /\ \E r \in {changePasswordSave(users, req.id, req.body.newPassword)} :
          Saved(req, r)

\* new Date() advances.
NewDay ==
    /\ today < MaxDate
    /\ today' = today + 1
    /\ served' = NoServed
    /\ UNCHANGED <<users, inflight>>
    /\ UNCHANGED restOfUsers

InitUsers == LimiterIdle /\ AuthIdle /\ UsersIdle /\ FormIdle

RegisterAny == \E body \in RegisterBodies : Register(body)
LoginAny == \E body \in LoginBodies : Login(body)
ChangePasswordAny ==
    \E body \in ChangePasswordBodies, userId \in 1..Len(users) :
        ChangePassword(body, userId)
RegisterSaveAny == \E req \in BagToSet(inflight) : RegisterSave(req)
LoginSaveAny == \E req \in BagToSet(inflight) : LoginSave(req)
ChangePasswordSaveAny ==
    \E req \in BagToSet(inflight) : ChangePasswordSave(req)

NextUsers ==
    \/ RegisterAny
    \/ RegisterSaveAny
    \/ LoginAny
    \/ LoginSaveAny
    \/ ChangePasswordAny
    \/ ChangePasswordSaveAny
    \/ NewDay

SpecUsers == InitUsers /\ [][NextUsers]_vars

\* ------------------------------------------------ claims on the controllers
\* The step just taken is the part of register that looked the email up, and
\* the email belonged to a stored user / the part that saved.
RegisterOfExisting ==
    /\ served.op = "register"
    /\ served.step = "find"
    /\ findOne(served.before, served.email) # 0
RegisterSaved == served.op = "register" /\ served.step = "save"

\* C21: a register with an email that belongs to a stored user answers 400
\* USER_EXISTS at once, leaves the stored users as they were and issues no
\* token; a register answers 201 exactly when it stored a user, and then a
\* user with its email is stored and the response carries a token.
C21_RegisterExistingOrCreated ==
    /\ RegisterOfExisting =>
          /\ served.done
          /\ served.res = UserExists
          /\ users = served.before
          /\ served.token = 0
    /\ RegisterSaved =>
          /\ (served.res.status = 201) <=> (users # served.before)
          /\ served.res.status = 201 =>
                /\ findOne(users, served.email) # 0
                /\ findOne(served.before, served.email) = 0
                /\ Len(users) = Len(served.before) + 1
                /\ served.token # 0
          /\ served.res.status # 201 => served.token = 0

\* Two registers have succeeded and a third, with the email of one of the
\* two stored users, has just been answered USER_EXISTS.
C21_Witness ==
    RegisterOfExisting /\ served.res = UserExists /\ Len(users) = 2

\* The step just taken is a login that gave both fields and whose
\* credential check failed: no stored user has the email / the stored user
\* with the email has another password.
LoginFailed ==
    /\ served.op = "login"
    /\ served.step = "find"
    /\ ~Falsy(served.email)
    /\ ~Falsy(served.password)
    /\ findByCredentials(served.before, served.email, served.password).threw
LoginOfUnknownEmail ==
    LoginFailed /\ findOne(served.before, served.email) = 0
LoginWithWrongPassword ==
    LoginFailed /\ findOne(served.before, served.email) # 0

\* C22: a login whose credential check fails is answered 401 'Invalid email
\* or password' INVALID_CREDENTIALS, the same response whether the email is
\* unknown or the password is wrong; no token is issued and no stored user
\* (so no lastLogin) changes.
C22_LoginFailuresAlike ==
    /\ LoginOfUnknownEmail =>
          /\ served.done
          /\ served.res = InvalidCredentials
          /\ served.token = 0
          /\ users = served.before
    /\ LoginWithWrongPassword =>
          /\ served.done
          /\ served.res = InvalidCredentials
          /\ served.token = 0
          /\ users = served.before

\* One user is stored, so that a login can fail either way, and a login with
\* that user's email and another password has just been refused.
C22_Witness ==
    LoginWithWrongPassword /\ Len(users) = 1 /\ served.res = InvalidCredentials

\* The step just taken is the save of a changePassword that was answered
\* 200 / a part of a changePassword that answered with an error.
PasswordChanged ==
    /\ served.op = "changePassword"
    /\ served.step = "save"
    /\ served.res.status = 200
ChangeRejected ==
    /\ served.op = "changePassword"
    /\ served.done
    /\ served.res.status # 200

\* A login of the stored user id with the password given gets past the
\* credential check / is answered 401.
LoginSucceeds(id, password) ==
    ~loginFind(users, [email |-> users[id].email,
                       password |-> password]).done
LoginRefused(id, password) ==
    loginFind(users, [email |-> users[id].email,
                      password |-> password]).res.status = 401

\* C23 as stated: after a successful changePassword the new password logs
\* in and the old one, the current password of the request, is refused.
C23_OldPasswordRefused ==
    PasswordChanged =>
        /\ LoginSucceeds(served.id, served.newPassword)
        /\ LoginRefused(served.id, served.currentPassword)

\* C23, amended: after a successful changePassword the new password logs in,
\* and the current password of the request is refused with 401 unless the
\* new password is that same password; a changePassword that is rejected
\* (a password missing, the current password incorrect, the new password
\* invalid) leaves every stored user unchanged, and a rejection for an
\* incorrect current password leaves the user a password that logs in and
\* is not the one the request gave.
C23_PasswordReplaced ==
    /\ PasswordChanged =>
          /\ LoginSucceeds(served.id, served.newPassword)
          /\ served.currentPassword # served.newPassword =>
                LoginRefused(served.id, served.currentPassword)
          /\ served.currentPassword = served.newPassword =>
                LoginSucceeds(served.id, served.currentPassword)
    /\ ChangeRejected =>
          /\ users = served.before
          /\ served.token = 0
          /\ served.res = IncorrectPassword =>
                /\ LoginRefused(served.found, served.currentPassword)
                /\ \E password \in Passwords :
                      LoginSucceeds(served.found, password)
    /\ (served.op = "changePassword" /\ served.step = "find"
            /\ (Falsy(served.currentPassword) \/ Falsy(served.newPassword)))
          => served.res = MissingPasswords

\* Two users are stored and one of them has just changed their password to
\* another one.
C23_Witness ==
    /\ PasswordChanged
    /\ served.currentPassword # served.newPassword
    /\ Len(users) = 2

\* ---------------------------------------------------------------- LoginForm
\* A string is the sequence of its characters.
Str1(a) == <<a>>
Blank == <<" ", " ", " ", " ", " ", " ">>
Address == <<"a", "@", "b", ".", "c">>

\* The values typed into the email and the password input: '', blank ones,
\* addresses with and without spaces around them and without a domain,
\* passwords of 5, 6 and 7 characters, one of them made long enough by the
\* spaces around it.
EmailTexts ==
    {<<>>, Str1(" "), Str1("a"), Address, Str1(" ") \o Address \o Str1(" "),
     <<"a", "@">>}
PasswordTexts ==
    {<<>>, Blank, <<"p", "a", "s", "s", "1">>,
     <<"p", "a", "s", "s", "1", "2">>, <<" ", "p", "a", "s", "s", " ">>,
     <<"p", "a", "s", "s", "1", "2", "3">>}

\* String.prototype.trim
RECURSIVE TrimStart(_)
TrimStart(str) ==
    IF str # <<>> /\ Head(str) = " " THEN TrimStart(Tail(str)) ELSE str
RECURSIVE TrimEnd(_)
TrimEnd(str) ==
    IF str # <<>> /\ str[Len(str)] = " "
    THEN TrimEnd(SubSeq(str, 1, Len(str) - 1))
    ELSE str
Trim(str) == TrimEnd(TrimStart(str))

\* validateEmail(email) of utils/helpers: the string, trimmed, is
\* local@domain.tld with no space and no second @ in it.
validateEmail(email) ==
    LET t == Trim(email) IN
    \E i \in 2..(Len(t) - 3) :
        /\ t[i] = "@"
        /\ \A j \in 1..Len(t) : t[j] # " "
        /\ \A j \in 1..Len(t) : j # i => t[j] # "@"
        /\ \E k \in (i + 2)..(Len(t) - 1) : t[k] = "."

MinLength == 6

\* As validateForm, but the password is measured after trimming.
validateFormTrimsPassword(data) ==
    [email |-> IF Trim(data.email) = <<>> THEN "Email is required"
               ELSE IF ~validateEmail(data.email)
               THEN "Please enter a valid email address"
               ELSE Undefined,
     password |-> IF Trim(data.password) = <<>> THEN "Password is required"
                  ELSE IF Len(Trim(data.password)) < MinLength
                  THEN "Password must be at least 6 characters"
                  ELSE Undefined]

\* validateForm(): the object errors it hands to setValidationErrors;
\* Undefined for a key errors does not have.
validateForm(data) ==
    [email |-> IF Trim(data.email) = <<>> THEN "Email is required"
               ELSE IF ~validateEmail(data.email)
               THEN "Please enter a valid email address"
               ELSE Undefined,
     password |-> IF Trim(data.password) = <<>> THEN "Password is required"
                  ELSE IF Len(data.password) < MinLength
                  THEN "Password must be at least 6 characters"
                  ELSE Undefined]

\* Object.keys(errors).length === 0
NoKeys(errors) == errors.email = Undefined /\ errors.password = Undefined

\* handleSubmit(e): the validation errors it sets and the calls of onSubmit
\* after it, submitted being the calls before it.
handleSubmit(data, submitted) ==
    LET errors == validateForm(data) IN
    [validationErrors |-> errors,
     calls |-> IF NoKeys(errors) THEN Append(submitted, data)
                                 ELSE submitted]

\* handleChange(e) for the input name and the value e.target.value
handleChange(data, errors, name, value) ==
    [formData |-> [data EXCEPT ![name] = value],
     validationErrors |->
        IF errors[name] # Undefined /\ errors[name] # ""
        THEN [errors EXCEPT ![name] = ""]
        ELSE errors]

\* The user types value into the input name; the inputs are disabled while
\* isLoading.
Change(name, value) ==
    /\ ~isLoading
    /\ \E r \in {handleChange(formData, validationErrors, name, value)} :
          /\ formData' = r.formData
          /\ validationErrors' = r.validationErrors
    /\ fevent' = NoEvent
    /\ UNCHANGED <<isLoading, calls>>
    /\ UNCHANGED restOfForm

\* The parent renders the form again with the other value of isLoading.
SetLoading ==
    /\ isLoading' = ~isLoading
    /\ fevent' = NoEvent
    /\ UNCHANGED <<formData, validationErrors, calls>>
    /\ UNCHANGED restOfForm

\* A submit event reaches the form: handleSubmit runs.
Submitted(type) ==
    /\ \E r \in {handleSubmit(formData, calls)} :
          /\ validationErrors' = r.validationErrors
          /\ calls' = r.calls
          /\ fevent' = [type |-> type, formData |-> formData,
                        isLoading |-> isLoading,
                        valid |-> NoKeys(r.validationErrors),
                        called |-> Len(r.calls) - Len(calls)]
    /\ UNCHANGED <<formData, isLoading>>
    /\ UNCHANGED restOfForm

\* The user clicks the submit button: a disabled button (disabled =
\* {isLoading}) swallows the click, an enabled one submits the form.
ClickSubmit ==
    /\ Len(calls) < MaxCalls
    /\ IF isLoading
       THEN /\ fevent' = [type |-> "click", formData |-> formData,
                          isLoading |-> isLoading,
                          valid |-> NoKeys(validateForm(formData)),
                          called |-> 0]
            /\ UNCHANGED <<formData, validationErrors, isLoading, calls>>
            /\ UNCHANGED restOfForm
       ELSE Submitted("click")

\* A submit event is dispatched on the form itself (form.requestSubmit(),
\* fireEvent.submit(form)), whatever the state of the button.
SubmitEvent ==
    /\ Len(calls) < MaxCalls
    /\ Submitted("submit")

\* LoginForm is mounted with either value of isLoading.
InitForm ==
    /\ LimiterIdle
    /\ AuthIdle
    /\ UsersIdle
    /\ formData = NoFormData
    /\ validationErrors = NoValidationErrors
    /\ isLoading \in BOOLEAN
    /\ calls = <<>>
    /\ fevent = NoEvent

ChangeAny ==
    \/ \E value \in EmailTexts : Change("email", value)
    \/ \E value \in PasswordTexts : Change("password", value)

NextForm ==
    \/ ChangeAny
    \/ SetLoading
    \/ ClickSubmit
    \/ SubmitEvent

SpecForm == InitForm /\ [][NextForm]_vars

\* ---------------------------------------------------- claims on LoginForm
\* The email / the password of data passes validation as the form's
\* contract words it: non-blank and a valid address / non-blank and at least
\* 6 characters long.
EmailPasses(data) == Trim(data.email) # <<>> /\ validateEmail(data.email)
PasswordPasses(data) ==
    Trim(data.password) # <<>> /\ Len(data.password) >= MinLength

\* The event just handled was a submit event that reached the form.
SubmitHandled ==
    fevent.type # Null /\ ~(fevent.type = "click" /\ fevent.isLoading)

\* C24: a submit event calls onSubmit exactly once, with the current form
\* data, when the email and the password pass validation, and not at all
\* otherwise, setting the error of each field that fails and of no other;
\* so onSubmit is only ever called with data that pass validation.
C24_SubmitOnlyWhenValid ==
    /\ \A i \in 1..Len(calls) :
          EmailPasses(calls[i]) /\ PasswordPasses(calls[i])
    /\ SubmitHandled =>
          /\ fevent.formData = formData
          /\ fevent.called =
                IF EmailPasses(formData) /\ PasswordPasses(formData)
                THEN 1 ELSE 0
          /\ fevent.called = 1 => calls[Len(calls)] = formData
          /\ validationErrors.email =
                IF EmailPasses(formData) THEN Undefined
                ELSE IF Trim(formData.email) = <<>> THEN "Email is required"
                ELSE "Please enter a valid email address"
          /\ validationErrors.password =
                IF PasswordPasses(formData) THEN Undefined
                ELSE IF Trim(formData.password) = <<>>
                THEN "Password is required"
                ELSE "Password must be at least 6 characters"

\* A second submit of valid data, the password 6 characters long only with
\* the spaces around it, has just called onSubmit a second time.
C24_Witness ==
    /\ SubmitHandled
    /\ fevent.called = 1
    /\ Len(calls) = 2
    /\ formData.password = <<" ", "p", "a", "s", "s", " ">>

\* C25: no event handled while isLoading is true calls onSubmit.
C25_NoSubmitWhileLoading ==
    (fevent.type # Null /\ fevent.isLoading) => fevent.called = 0
====
